---- MODULE Spec2Model ----
(***************************************************************************)
(* steep_and_sip_external.py: compute similarities between external and    *)
(* internal profiles (steep), then connectivities against a background     *)
(* similarity matrix (sip).  The model follows main() statement by         *)
(* statement; the collaborators in steep.py, sip.py and GCToo are          *)
(* operators applied to the values main hands them.                        *)
(***************************************************************************)
EXTENDS Naturals, Sequences, FiniteSets, TLC

(***************************************************************************)
(* Bounds of the model.                                                    *)
(***************************************************************************)
\* number of samples (columns) of the internal profile matrix
MaxSamples == 2

(***************************************************************************)
(* Module constants of steep_and_sip_external.py.                          *)
(***************************************************************************)
SIMILARITY_METRIC_FIELD == "similarity_metric"
CONNECTIVITY_METRIC_FIELD == "connectivity_metric"
QUERY_FIELD_NAME == "query_field"
TARGET_FIELD_NAME == "target_field"
SEPARATOR == ":"

\* choices= of --similarity_metric and --connectivity_metric
SimilarityChoices == {"spearman", "pearson"}
ConnectivityChoices == {"ks_test", "percentile_score"}

\* metric names a caller may hand over, recognised or not
SimilarityNames == SimilarityChoices \cup {"cosine"}
ConnectivityNames == ConnectivityChoices \cup {"zscore"}

(***************************************************************************)
(* Inputs: metadata tables and gct objects.                                *)
(*   table  : [cols : set of field names, cell : [id -> [cols -> value]]]  *)
(*   gct    : [data_df, row_metadata_df, col_metadata_df]                  *)
(*   data_df: [name, rid, index (row ids), columns (column ids)]           *)
(***************************************************************************)
MetaFields == {"pert_id", "cell_id"}
MetaValues == {"A", "B", "X", "Y"}
ValueRank == [v \in MetaValues |->
                CASE v = "A" -> 1 [] v = "B" -> 2 [] v = "X" -> 3 [] v = "Y" -> 4]

RowA == [pert_id |-> "A", cell_id |-> "X"]
RowB == [pert_id |-> "B", cell_id |-> "Y"]
FullRow(r) == [f \in MetaFields \cup {SIMILARITY_METRIC_FIELD} |->
                 IF f = SIMILARITY_METRIC_FIELD THEN "stale" ELSE r[f]]

InternalIds == 1 .. MaxSamples
NewId == MaxSamples + 1
\* probe ids of the two feature axes the external file may carry
Features == {11, 12}
OtherFeatures == {11, 13}

\* the ids of a set in ascending order (the order of the file)
RECURSIVE Ascending(_)
Ascending(S) ==
  IF S = {} THEN <<>>
  ELSE LET m == CHOOSE x \in S : \A y \in S : x <= y
       IN <<m>> \o Ascending(S \ {m})

Range(s) == {s[k] : k \in 1 .. Len(s)}

\* a table over ids: sample a carries row(a) restricted to cols
MkTable(cols, rows) ==
  [cols |-> cols,
   cell |-> [i \in DOMAIN rows |-> [c \in cols |-> FullRow(rows[i])[c]]]]

\* assignments of metadata rows to ids: one cohort, or two alternating
RowAssignments(ids) ==
  {[i \in ids |-> RowA], [i \in ids |-> IF i % 2 = 1 THEN RowA ELSE RowB]}

EmptyTable(ids) == [cols |-> {}, cell |-> [i \in ids |-> <<>>]]

ProfileGct(name, rid, ids, cols, rows) ==
  [data_df |-> [name |-> name, rid |-> rid, index |-> Ascending(rid),
                columns |-> Ascending(ids)],
   row_metadata_df |-> EmptyTable(rid),
   col_metadata_df |-> MkTable(cols, rows)]

InternalColumnSets ==
  {MetaFields, {"pert_id"}, MetaFields \cup {SIMILARITY_METRIC_FIELD}}
ExternalColumnSets == {MetaFields, {"pert_id"}}

InternalGcts ==
  {ProfileGct("internal", Features, InternalIds, cols, rows) :
     cols \in InternalColumnSets, rows \in RowAssignments(InternalIds)}

ExternalGcts ==
  {ProfileGct("external", rid, DOMAIN rows, cols, rows) :
     rid \in {Features, OtherFeatures},
     cols \in ExternalColumnSets,
     rows \in RowAssignments(InternalIds) \cup [{NewId} -> {RowA, RowB}]}

\* the background: similarities of the internal samples against
\* themselves, or against the first of them only (not a self-comparison)
BgRows == [i \in InternalIds |-> IF i % 2 = 1 THEN RowA ELSE RowB]
BgGcts ==
  {[data_df |-> [name |-> "bg", rid |-> InternalIds,
                 index |-> Ascending(InternalIds), columns |-> Ascending(cids)],
    row_metadata_df |-> MkTable(cols, BgRows),
    col_metadata_df |-> MkTable(cols, [i \in cids |-> BgRows[i]])] :
     cids \in {InternalIds, {1}}, cols \in ExternalColumnSets}

\* values of the three --fields_to_aggregate_* arguments
FieldLists == {<<"pert_id">>, <<"pert_id", "cell_id">>}

Args ==
  [similarity_metric : SimilarityNames,
   connectivity_metric : ConnectivityNames,
   fields_to_aggregate_in_test_gct_queries : FieldLists,
   fields_to_aggregate_in_test_gct_targets : FieldLists,
   fields_to_aggregate_in_bg_gct : FieldLists]

NoFile == [absent |-> TRUE]

VARIABLES
  args,          \* the argument namespace
  via_parser,    \* TRUE: built by build_parser().parse_args; FALSE: main(args) called directly
  disk,          \* the files: the three inputs and the two outputs
  pc,            \* position in the script
  internal_gct,  \* the parsed objects (mutable, shared by reference)
  external_gct,
  bg_gct,
  locals,        \* main's local names, bound as the statements execute
  calls,         \* the calls main has made so far, with their argument expressions
  error          \* the exception that ended the run, "" while there is none

vars == <<args, via_parser, disk, pc, internal_gct, external_gct, bg_gct, locals, calls, error>>

Init ==
  /\ args \in Args
  /\ via_parser \in BOOLEAN
  /\ \E i \in InternalGcts, e \in ExternalGcts, b \in BgGcts :
       disk = [internal |-> i, external |-> e, bg |-> b,
               out_steep |-> NoFile, out_sip |-> NoFile]
  /\ pc = IF via_parser THEN "parse_args" ELSE "main"
  /\ internal_gct = NoFile
  /\ external_gct = NoFile
  /\ bg_gct = NoFile
  /\ locals = <<>>
  /\ calls = <<>>
  /\ error = ""

(***************************************************************************)
(* Collaborators.  A call returns [ok |-> TRUE, value |-> v] or            *)
(* [ok |-> FALSE, error |-> kind]; main catches nothing, so a failed call  *)
(* ends the run.                                                           *)
(***************************************************************************)
Ok(v) == [ok |-> TRUE, value |-> v]
Fail(kind) == [ok |-> FALSE, error |-> kind]

\* a column assignment that fills the column in only where it is missing
SetColumnIfMissing(t, field, v) ==
  [cols |-> t.cols \cup {field},
   cell |-> [i \in DOMAIN t.cell |->
               [c \in t.cols \cup {field} |->
                  IF c \in t.cols THEN t.cell[i][c] ELSE v]]]

\* pandas: df[field] = scalar.  Adds or overwrites the column, in every row.
SetColumn(t, field, v) ==
  [cols |-> t.cols \cup {field},
   cell |-> [i \in DOMAIN t.cell |->
               [c \in t.cols \cup {field} |-> IF c = field THEN v ELSE t.cell[i][c]]]]

\* steep.compute_similarity_bw_two_dfs: cell (i, j) is the correlation of
\* column i of df1 with column j of df2; rows are df1's samples.
compute_similarity_bw_two_dfs(df1, df2, metric) ==
  IF df1.rid # df2.rid THEN Fail("SchemaMismatch")
  ELSE IF metric \notin SimilarityChoices THEN Fail("UnknownMetric")
  ELSE Ok([name |-> "similarity", metric |-> metric,
           index |-> df1.columns, columns |-> df2.columns,
           cell |-> [p \in Range(df1.columns) \X Range(df2.columns) |->
                       [x |-> <<df1.name, p[1]>>, y |-> <<df2.name, p[2]>>]]])

\* GCToo.GCToo(data_df, row_metadata_df, col_metadata_df)
GCToo(data_df, row_metadata_df, col_metadata_df) ==
  [data_df |-> data_df, row_metadata_df |-> row_metadata_df,
   col_metadata_df |-> col_metadata_df]

\* one axis label of a multi-index view: the id with all its metadata
Label(t, i) == [id |-> i, meta |-> t.cell[i]]

\* gct.multi_index_df
MultiIndexDf(g) ==
  [data |-> g.data_df,
   index |-> [k \in DOMAIN g.data_df.index |->
                Label(g.row_metadata_df, g.data_df.index[k])],
   columns |-> [k \in DOMAIN g.data_df.columns |->
                  Label(g.col_metadata_df, g.data_df.columns[k])]]

\* the composite key: the field values joined by sep, in field order
RECURSIVE Key(_, _, _)
Key(meta, fields, sep) ==
  IF fields = <<>> THEN ""
  ELSE IF Len(fields) = 1 THEN meta[fields[1]]
  ELSE meta[fields[1]] \o sep \o Key(meta, Tail(fields), sep)

HasFields(axis, fields) ==
  \A k \in DOMAIN axis : \A j \in DOMAIN fields : fields[j] \in DOMAIN axis[k].meta

AddAggregatedLevel(axis, fields, name, sep) ==
  [k \in DOMAIN axis |->
     [id |-> axis[k].id, meta |-> axis[k].meta,
      level |-> name, key |-> Key(axis[k].meta, fields, sep)]]

\* order of two keys built from the same field list (string order)
RECURSIVE RanksLess(_, _)
RanksLess(a, b) ==
  IF a = <<>> \/ b = <<>> THEN FALSE
  ELSE IF a[1] # b[1] THEN a[1] < b[1]
  ELSE RanksLess(Tail(a), Tail(b))

KeyLess(l1, l2, fields) ==
  RanksLess([k \in DOMAIN fields |-> ValueRank[l1.meta[fields[k]]]],
            [k \in DOMAIN fields |-> ValueRank[l2.meta[fields[k]]]])

RemoveAt(s, k) == [j \in 1 .. (Len(s) - 1) |-> IF j < k THEN s[j] ELSE s[j + 1]]

\* stable sort of an axis by key
RECURSIVE SortByKey(_, _)
SortByKey(axis, fields) ==
  IF axis = <<>> THEN <<>>
  ELSE LET least(k) == \A j \in DOMAIN axis : ~KeyLess(axis[j], axis[k], fields)
           k0 == CHOOSE k \in DOMAIN axis :
                   least(k) /\ \A j \in 1 .. (k - 1) : ~least(j)
       IN <<axis[k0]>> \o SortByKey(RemoveAt(axis, k0), fields)

\* sip.prepare_multi_index_dfs: the query fields key the columns of the
\* test matrix, the target fields its rows, the background fields both
\* axes of the background matrix; each axis is then sorted by its key.
prepare_multi_index_dfs(test_mi, bg_mi, fq, ft, fbg, qname, tname, sep) ==
  IF ~(/\ HasFields(test_mi.columns, fq) /\ HasFields(test_mi.index, ft)
       /\ HasFields(bg_mi.index, fbg) /\ HasFields(bg_mi.columns, fbg))
  THEN Fail("SchemaMismatch")
  ELSE Ok(<<[data |-> test_mi.data,
             index |-> SortByKey(AddAggregatedLevel(test_mi.index, ft, tname, sep), ft),
             columns |-> SortByKey(AddAggregatedLevel(test_mi.columns, fq, qname, sep), fq)],
            [data |-> bg_mi.data,
             index |-> SortByKey(AddAggregatedLevel(bg_mi.index, fbg, tname, sep), fbg),
             columns |-> SortByKey(AddAggregatedLevel(bg_mi.columns, fbg, tname, sep), fbg)]>>)

\* sip.check_symmetry: for each matrix, do its rows and columns carry the
\* same set of labels
IsSymmetric(mi) == Range(mi.index) = Range(mi.columns)
check_symmetry(test_mi, bg_mi) == Ok(<<IsSymmetric(test_mi), IsSymmetric(bg_mi)>>)

RECURSIVE Unique(_)
Unique(s) ==
  IF s = <<>> THEN <<>>
  ELSE LET r == Unique(SubSeq(s, 1, Len(s) - 1))
       IN IF s[Len(s)] \in Range(r) THEN r ELSE Append(r, s[Len(s)])

KeysOf(axis) == Unique([k \in DOMAIN axis |-> axis[k].key])

\* the foreground of (t, q): the test cells of row key t and column key q,
\* without the self-pairs of a self-comparison
Foreground(test_df, t, q, is_sym) ==
  {<<r.id, c.id>> : <<r, c>> \in
     {p \in Range(test_df.index) \X Range(test_df.columns) :
        /\ p[1].key = t /\ p[2].key = q
        /\ ~(is_sym /\ p[1].id = p[2].id)}}

\* the background of target t: the cells of cohort t against itself, one
\* of each mirrored pair and no diagonal
Background(bg_df, t) ==
  {<<r.id, c.id>> : <<r, c>> \in
     {p \in Range(bg_df.index) \X Range(bg_df.columns) :
        p[1].key = t /\ p[2].key = t /\ p[1].id < p[2].id}}

ConnectivityMatrix(test_df, bg_df, qfield, tfield, metric, is_sym, signed) ==
  [signed |-> signed, metric |-> metric,
   index |-> [k \in DOMAIN KeysOf(test_df.index) |->
                [level |-> tfield, key |-> KeysOf(test_df.index)[k]]],
   columns |-> [k \in DOMAIN KeysOf(test_df.columns) |->
                  [level |-> qfield, key |-> KeysOf(test_df.columns)[k]]],
   cell |-> [p \in Range(KeysOf(test_df.index)) \X Range(KeysOf(test_df.columns)) |->
               [fg |-> Foreground(test_df, p[1], p[2], is_sym),
                bg |-> Background(bg_df, p[1])]]]

\* sip.compute_connectivities: the unsigned and the signed matrix, rows
\* the target cohorts and columns the query cohorts of the test matrix
compute_connectivities(test_df, bg_df, qfield, tfield, bgfield, metric, is_sym) ==
  IF metric \notin ConnectivityChoices THEN Fail("UnknownMetric")
  ELSE Ok(<<ConnectivityMatrix(test_df, bg_df, qfield, tfield, metric, is_sym, FALSE),
            ConnectivityMatrix(test_df, bg_df, qfield, tfield, metric, is_sym, TRUE)>>)

\* GCToo.multi_index_df_to_component_dfs(mi_df, rid=..., cid=...): the
\* level named rid labels the rows, the level named cid the columns, and
\* the remaining levels (none here) become the metadata columns
multi_index_df_to_component_dfs(mi_df, rid, cid) ==
  LET rows == [k \in DOMAIN mi_df.index |-> mi_df.index[k].key]
      cols == [k \in DOMAIN mi_df.columns |-> mi_df.columns[k].key]
  IN <<[name |-> "connectivity", signed |-> mi_df.signed, metric |-> mi_df.metric,
        rid |-> rid, cid |-> cid, index |-> rows, columns |-> cols,
        cell |-> mi_df.cell],
       EmptyTable(Range(rows)), EmptyTable(Range(cols))>>

\* sip.add_connectivity_metric_to_metadata
add_connectivity_metric_to_metadata(t, metric, field) ==
  [cols |-> t.cols \cup {field},
   cell |-> [i \in DOMAIN t.cell |->
               [c \in t.cols \cup {field} |-> IF c = field THEN metric ELSE t.cell[i][c]]]]

(***************************************************************************)
(* build_parser and main.                                                  *)
(***************************************************************************)
\* a parser without choices= on the metric arguments
ParserAcceptsAnything(a) == TRUE

\* build_parser: choices= of the two metric arguments
ParserAccepts(a) ==
  /\ a.similarity_metric \in SimilarityChoices
  /\ a.connectivity_metric \in ConnectivityChoices

\* main with the similarity output written after the cohort-key step
AfterWriteLate(stage) ==
  CASE stage = "main" -> "compute_similarity"
    [] stage = "compute_similarity" -> "stamp_similarity"
    [] stage = "stamp_similarity" -> "assemble_sim"
    [] stage = "assemble_sim" -> "prepare"
    [] stage = "prepare" -> "write_sim"
    [] stage = "write_sim" -> "check_symmetry"
    [] stage = "check_symmetry" -> "compute_connectivities"
    [] stage = "compute_connectivities" -> "to_component_dfs"
    [] stage = "to_component_dfs" -> "stamp_connectivity"
    [] stage = "stamp_connectivity" -> "write_conn"
    [] stage = "write_conn" -> "done"

\* the statements of main, in program order
After(stage) ==
  CASE stage = "main" -> "compute_similarity"
    [] stage = "compute_similarity" -> "stamp_similarity"
    [] stage = "stamp_similarity" -> "assemble_sim"
    [] stage = "assemble_sim" -> "write_sim"
    [] stage = "write_sim" -> "prepare"
    [] stage = "prepare" -> "check_symmetry"
    [] stage = "check_symmetry" -> "compute_connectivities"
    [] stage = "compute_connectivities" -> "to_component_dfs"
    [] stage = "to_component_dfs" -> "stamp_connectivity"
    [] stage = "stamp_connectivity" -> "write_conn"
    [] stage = "write_conn" -> "done"

\* main going on after a failed call
UncaughtSwallowed(stage) == After(stage)

\* main has no try/except: an exception raised by a call leaves main
Uncaught(stage) == "failed"

\* the argument expressions of each call, as written in main
ReadCallArgs == <<"args.external_gct_path", "args.internal_gct_path", "args.bg_gct_path">>
SimilarityCallArgs ==
  <<"internal_gct.data_df", "external_gct.data_df", "args.similarity_metric">>
\* the row metadata taken from the external profiles
RowMetadataSourceExternal == "external_gct"

\* which parsed object each metadata name of the similarity gct refers to
RowMetadataSource == "internal_gct"
ColMetadataSource == "external_gct"
SimGctCallArgs == <<"sim_df", "row_metadata_for_sim_df", "col_metadata_for_sim_df">>
\* the two test field lists handed over in the other order
PrepareCallArgsSwapped ==
  <<"sim_gct.multi_index_df", "bg_gct.multi_index_df",
    "args.fields_to_aggregate_in_test_gct_targets",
    "args.fields_to_aggregate_in_test_gct_queries",
    "args.fields_to_aggregate_in_bg_gct",
    "QUERY_FIELD_NAME", "TARGET_FIELD_NAME", "SEPARATOR">>
PrepareCallArgs ==
  <<"sim_gct.multi_index_df", "bg_gct.multi_index_df",
    "args.fields_to_aggregate_in_test_gct_queries",
    "args.fields_to_aggregate_in_test_gct_targets",
    "args.fields_to_aggregate_in_bg_gct",
    "QUERY_FIELD_NAME", "TARGET_FIELD_NAME", "SEPARATOR">>
\* the symmetry check given the relabeled matrices
SymmetryCallArgsRelabeled == <<"test_df", "bg_df">>
SymmetryCallArgs == <<"sim_gct.multi_index_df", "bg_gct.multi_index_df">>
\* the connectivity computation given the background flag
ConnectivityCallArgsBgFlag ==
  <<"test_df", "bg_df", "QUERY_FIELD_NAME", "TARGET_FIELD_NAME", "TARGET_FIELD_NAME",
    "args.connectivity_metric", "is_bg_df_sym">>
ConnectivityCallArgs ==
  <<"test_df", "bg_df", "QUERY_FIELD_NAME", "TARGET_FIELD_NAME", "TARGET_FIELD_NAME",
    "args.connectivity_metric", "is_test_df_sym">>
\* the unsigned matrix taken to the output
ComponentCallArgsUnsigned == <<"conn_mi_df", "TARGET_FIELD_NAME", "QUERY_FIELD_NAME">>
ComponentCallArgs == <<"signed_conn_mi_df", "TARGET_FIELD_NAME", "QUERY_FIELD_NAME">>
ConnGctCallArgs == <<"signed_data_df", "signed_row_metadata_df", "signed_col_metadata_df">>

\* an assignment that works on a copy and leaves the parsed object alone
AssignToCopy(g, field, v) == g

\* an assignment through a name that refers to a parsed object's metadata
\* table changes that object's table (no copy is taken)
AssignThrough(g, field, v) ==
  [g EXCEPT !.col_metadata_df = SetColumn(@, field, v)]

Referent(ref) == IF ref = "internal_gct" THEN internal_gct ELSE external_gct

\* the value of an argument expression in the current state
Eval(n) ==
  CASE n = "QUERY_FIELD_NAME" -> QUERY_FIELD_NAME
    [] n = "TARGET_FIELD_NAME" -> TARGET_FIELD_NAME
    [] n = "SEPARATOR" -> SEPARATOR
    [] n = "SIMILARITY_METRIC_FIELD" -> SIMILARITY_METRIC_FIELD
    [] n = "CONNECTIVITY_METRIC_FIELD" -> CONNECTIVITY_METRIC_FIELD
    [] n = "args.similarity_metric" -> args.similarity_metric
    [] n = "args.connectivity_metric" -> args.connectivity_metric
    [] n = "args.fields_to_aggregate_in_test_gct_queries" ->
         args.fields_to_aggregate_in_test_gct_queries
    [] n = "args.fields_to_aggregate_in_test_gct_targets" ->
         args.fields_to_aggregate_in_test_gct_targets
    [] n = "args.fields_to_aggregate_in_bg_gct" -> args.fields_to_aggregate_in_bg_gct
    [] n = "internal_gct.data_df" -> internal_gct.data_df
    [] n = "external_gct.data_df" -> external_gct.data_df
    [] n = "sim_gct.multi_index_df" -> MultiIndexDf(locals.sim_gct)
    [] n = "bg_gct.multi_index_df" -> MultiIndexDf(bg_gct)
    [] n \in {"row_metadata_for_sim_df", "col_metadata_for_sim_df"} ->
         Referent(locals[n]).col_metadata_df
    [] OTHER -> locals[n]

Vals(names) == [k \in DOMAIN names |-> Eval(names[k])]

Bind(l, name, v) == (name :> v) @@ l
Called(fn, names) == Append(calls, [fn |-> fn, args |-> names])

\* build_parser().parse_args: a metric outside choices ends the process
ParseArgs ==
  /\ pc = "parse_args"
  /\ IF ParserAccepts(args)
     THEN pc' = "main" /\ error' = error
     ELSE pc' = "rejected" /\ error' = "UnknownMetric"
  /\ UNCHANGED <<args, via_parser, disk, internal_gct, external_gct, bg_gct, locals, calls>>

\* lines 85-87
ReadInputs ==
  /\ pc = "main"
  /\ external_gct' = disk.external
  /\ internal_gct' = disk.internal
  /\ bg_gct' = disk.bg
  /\ calls' = Called("utils.read_gct_and_config_file", ReadCallArgs)
  /\ pc' = After(pc)
  /\ UNCHANGED <<args, via_parser, disk, locals, error>>

\* lines 90-92
ComputeSimilarity ==
  /\ pc = "compute_similarity"
  /\ LET v == Vals(SimilarityCallArgs)
         r == compute_similarity_bw_two_dfs(v[1], v[2], v[3])
     IN IF r.ok
        THEN /\ locals' = Bind(locals, "sim_df", r.value)
             /\ pc' = After(pc)
             /\ error' = error
        ELSE /\ locals' = locals
             /\ pc' = Uncaught(pc)
             /\ error' = r.error
  /\ calls' = Called("steep.compute_similarity_bw_two_dfs", SimilarityCallArgs)
  /\ UNCHANGED <<args, via_parser, disk, internal_gct, external_gct, bg_gct>>

\* lines 95-100: bind the two metadata names, then assign the metric
\* column through each
StampSimilarityMetric ==
  /\ pc = "stamp_similarity"
  /\ locals' = Bind(Bind(locals, "row_metadata_for_sim_df", RowMetadataSource),
                    "col_metadata_for_sim_df", ColMetadataSource)
  /\ internal_gct' =
       IF "internal_gct" \in {RowMetadataSource, ColMetadataSource}
       THEN AssignThrough(internal_gct, SIMILARITY_METRIC_FIELD, args.similarity_metric)
       ELSE internal_gct
  /\ external_gct' =
       IF "external_gct" \in {RowMetadataSource, ColMetadataSource}
       THEN AssignThrough(external_gct, SIMILARITY_METRIC_FIELD, args.similarity_metric)
       ELSE external_gct
  /\ calls' = Called("DataFrame.__setitem__",
                     <<"SIMILARITY_METRIC_FIELD", "args.similarity_metric">>)
  /\ pc' = After(pc)
  /\ UNCHANGED <<args, via_parser, disk, bg_gct, error>>

\* line 103
AssembleSimGct ==
  /\ pc = "assemble_sim"
  /\ LET v == Vals(SimGctCallArgs)
     IN locals' = Bind(locals, "sim_gct", GCToo(v[1], v[2], v[3]))
  /\ calls' = Called("GCToo.GCToo", SimGctCallArgs)
  /\ pc' = After(pc)
  /\ UNCHANGED <<args, via_parser, disk, internal_gct, external_gct, bg_gct, error>>

\* line 106
WriteSimGct ==
  /\ pc = "write_sim"
  /\ disk' = [disk EXCEPT !.out_steep = locals.sim_gct]
  /\ calls' = Called("wg.write", <<"sim_gct", "args.out_steep_name">>)
  /\ pc' = After(pc)
  /\ UNCHANGED <<args, via_parser, internal_gct, external_gct, bg_gct, locals, error>>

\* lines 112-117
PrepareMultiIndexDfs ==
  /\ pc = "prepare"
  /\ LET v == Vals(PrepareCallArgs)
         r == prepare_multi_index_dfs(v[1], v[2], v[3], v[4], v[5], v[6], v[7], v[8])
     IN IF r.ok
        THEN /\ locals' = Bind(Bind(locals, "test_df", r.value[1]), "bg_df", r.value[2])
             /\ pc' = After(pc)
             /\ error' = error
        ELSE /\ locals' = locals
             /\ pc' = Uncaught(pc)
             /\ error' = r.error
  /\ calls' = Called("sip.prepare_multi_index_dfs", PrepareCallArgs)
  /\ UNCHANGED <<args, via_parser, disk, internal_gct, external_gct, bg_gct>>

\* line 120
CheckSymmetry ==
  /\ pc = "check_symmetry"
  /\ LET v == Vals(SymmetryCallArgs)
         r == check_symmetry(v[1], v[2])
     IN locals' = Bind(Bind(locals, "is_test_df_sym", r.value[1]),
                       "is_bg_df_sym", r.value[2])
  /\ calls' = Called("sip.check_symmetry", SymmetryCallArgs)
  /\ pc' = After(pc)
  /\ UNCHANGED <<args, via_parser, disk, internal_gct, external_gct, bg_gct, error>>

\* lines 123-125
ComputeConnectivities ==
  /\ pc = "compute_connectivities"
  /\ LET v == Vals(ConnectivityCallArgs)
         r == compute_connectivities(v[1], v[2], v[3], v[4], v[5], v[6], v[7])
     IN IF r.ok
        THEN /\ locals' = Bind(Bind(locals, "conn_mi_df", r.value[1]),
                               "signed_conn_mi_df", r.value[2])
             /\ pc' = After(pc)
             /\ error' = error
        ELSE /\ locals' = locals
             /\ pc' = Uncaught(pc)
             /\ error' = r.error
  /\ calls' = Called("sip.compute_connectivities", ConnectivityCallArgs)
  /\ UNCHANGED <<args, via_parser, disk, internal_gct, external_gct, bg_gct>>

\* line 128
ToComponentDfs ==
  /\ pc = "to_component_dfs"
  /\ LET v == Vals(ComponentCallArgs)
         r == multi_index_df_to_component_dfs(v[1], v[2], v[3])
     IN locals' = Bind(Bind(Bind(locals, "signed_data_df", r[1]),
                            "signed_row_metadata_df", r[2]),
                       "signed_col_metadata_df", r[3])
  /\ calls' = Called("GCToo.multi_index_df_to_component_dfs", ComponentCallArgs)
  /\ pc' = After(pc)
  /\ UNCHANGED <<args, via_parser, disk, internal_gct, external_gct, bg_gct, error>>

\* lines 131-132: the column and the row metadata, each changed in place
StampConnectivityMetric ==
  /\ pc = "stamp_connectivity"
  /\ locals' =
       Bind(Bind(locals, "signed_col_metadata_df",
                 add_connectivity_metric_to_metadata(
                   locals.signed_col_metadata_df, args.connectivity_metric,
                   CONNECTIVITY_METRIC_FIELD)),
            "signed_row_metadata_df",
            add_connectivity_metric_to_metadata(
              locals.signed_row_metadata_df, args.connectivity_metric,
              CONNECTIVITY_METRIC_FIELD))
  /\ calls' = Called("sip.add_connectivity_metric_to_metadata",
                     <<"args.connectivity_metric", "CONNECTIVITY_METRIC_FIELD">>)
  /\ pc' = After(pc)
  /\ UNCHANGED <<args, via_parser, disk, internal_gct, external_gct, bg_gct, error>>

\* lines 135-136
WriteConnGct ==
  /\ pc = "write_conn"
  /\ LET v == Vals(ConnGctCallArgs)
         g == GCToo(v[1], v[2], v[3])
     IN /\ locals' = Bind(locals, "conn_gct", g)
        /\ disk' = [disk EXCEPT !.out_sip = g]
  /\ calls' = Called("wg.write", <<"conn_gct", "args.out_sip_name">>)
  /\ pc' = After(pc)
  /\ UNCHANGED <<args, via_parser, internal_gct, external_gct, bg_gct, error>>

Next ==
  \/ ParseArgs
  \/ ReadInputs
  \/ ComputeSimilarity
  \/ StampSimilarityMetric
  \/ AssembleSimGct
  \/ WriteSimGct
  \/ PrepareMultiIndexDfs
  \/ CheckSymmetry
  \/ ComputeConnectivities
  \/ ToComponentDfs
  \/ StampConnectivityMetric
  \/ WriteConnGct

Spec == Init /\ [][Next]_vars
(***************************************************************************)
(* Properties.                                                             *)
(***************************************************************************)
Bound(n) == n \in DOMAIN locals
CallsTo(fn) == {k \in DOMAIN calls : calls[k].fn = fn}
Written(f) == disk[f] # NoFile
UnknownMetricGiven ==
  \/ args.similarity_metric \notin {"spearman", "pearson"}
  \/ args.connectivity_metric \notin {"ks_test", "percentile_score"}

\* a file holds the connectivity matrix m
HoldsMatrix(f, m) ==
  /\ Written(f)
  /\ disk[f].data_df.name = "connectivity"
  /\ disk[f].data_df.signed = m.signed
  /\ disk[f].data_df.cell = m.cell

KeySet(axis) == {axis[k].key : k \in DOMAIN axis}

\* C1 as stated: the connectivity computation receives both symmetry
\* flags, the background one included.
C1_BothFlagsPassed ==
  \A k \in CallsTo("sip.compute_connectivities") :
    {"is_test_df_sym", "is_bg_df_sym"} \subseteq Range(calls[k].args)

\* C1 amended: both flags are computed, but the connectivity computation
\* receives the test flag alone, as its last argument; the background flag
\* is handed to no call.
C1_OnlyTestFlagPassed ==
  \A k \in CallsTo("sip.compute_connectivities") :
    /\ Bound("is_test_df_sym") /\ Bound("is_bg_df_sym")
    /\ "is_bg_df_sym" \notin Range(calls[k].args)
    /\ {j \in DOMAIN calls[k].args : calls[k].args[j] = "is_test_df_sym"} = {7}
    /\ Len(calls[k].args) = 7
    /\ \A j \in DOMAIN calls : "is_bg_df_sym" \notin Range(calls[j].args)

C1_Witness ==
  /\ CallsTo("sip.compute_connectivities") # {}
  /\ Bound("signed_conn_mi_df")
  /\ locals.is_test_df_sym # locals.is_bg_df_sym

\* C2 as stated: a completed run has emitted the unsigned and the signed
\* connectivity matrix.
C2_BothMatricesEmitted ==
  pc = "done" =>
    /\ \E f \in {"out_steep", "out_sip"} : HoldsMatrix(f, locals.conn_mi_df)
    /\ \E f \in {"out_steep", "out_sip"} : HoldsMatrix(f, locals.signed_conn_mi_df)

\* C2 amended: a completed run has written the signed matrix to the
\* connectivity output; the unsigned matrix was computed and is in no file.
C2_OnlySignedEmitted ==
  pc = "done" =>
    /\ HoldsMatrix("out_sip", locals.signed_conn_mi_df)
    /\ locals.signed_conn_mi_df.signed /\ ~locals.conn_mi_df.signed
    /\ \A f \in {"out_steep", "out_sip"} : ~HoldsMatrix(f, locals.conn_mi_df)

C2_Witness ==
  /\ pc = "done"
  /\ \E p \in DOMAIN locals.signed_conn_mi_df.cell :
       locals.signed_conn_mi_df.cell[p].fg # {}

\* C3 as stated: with an unrecognized metric name, no similarity is
\* computed and no output is written, however main was reached.
C3_RejectedBeforeComputation ==
  UnknownMetricGiven =>
    /\ ~Bound("sim_df")
    /\ ~Written("out_steep") /\ ~Written("out_sip")

\* C3 amended: through build_parser an unrecognized metric name ends the
\* run before main makes any call: nothing is computed or written.  main
\* itself checks neither name: the similarity metric is first handed to
\* the similarity computation, and the connectivity metric to the
\* connectivity computation, which is called only after the similarity
\* output has been written.
C3_RejectedByParserOnly ==
  /\ (via_parser /\ UnknownMetricGiven) =>
       /\ pc \in {"parse_args", "rejected"}
       /\ calls = <<>> /\ ~Bound("sim_df")
       /\ ~Written("out_steep") /\ ~Written("out_sip")
  /\ pc = "rejected" => via_parser /\ UnknownMetricGiven
  /\ \A k \in DOMAIN calls :
       /\ "args.similarity_metric" \in Range(calls[k].args) => k >= 2
       /\ "args.connectivity_metric" \in Range(calls[k].args) =>
            /\ \E w \in 1 .. (k - 1) :
                 calls[w] = [fn |-> "wg.write", args |-> <<"sim_gct", "args.out_steep_name">>]
            /\ Written("out_steep")

C3_Witness ==
  /\ via_parser /\ pc = "rejected" /\ error = "UnknownMetric"
  /\ args.connectivity_metric = "zscore" /\ args.similarity_metric = "spearman"

\* C4: in the similarity structure the rows and the row metadata are the
\* internal profiles' samples and sample metadata, the columns and the
\* column metadata the external profiles'.
C4_RowsInternalColumnsExternal ==
  Bound("sim_gct") =>
    LET g == locals.sim_gct
        OfInput(t, in) ==
          /\ DOMAIN t.cell = DOMAIN in.cell
          /\ \A i \in DOMAIN in.cell : \A c \in in.cols \ {SIMILARITY_METRIC_FIELD} :
               t.cell[i][c] = in.cell[i][c]
    IN /\ g.data_df.index = disk.internal.data_df.columns
       /\ g.data_df.columns = disk.external.data_df.columns
       /\ OfInput(g.row_metadata_df, disk.internal.col_metadata_df)
       /\ OfInput(g.col_metadata_df, disk.external.col_metadata_df)
       /\ g.row_metadata_df = internal_gct.col_metadata_df
       /\ g.col_metadata_df = external_gct.col_metadata_df
       /\ \A p \in DOMAIN g.data_df.cell :
            g.data_df.cell[p] = [x |-> <<"internal", p[1]>>, y |-> <<"external", p[2]>>]

C4_Witness ==
  /\ Bound("sim_gct")
  /\ disk.internal.data_df.columns # disk.external.data_df.columns
  /\ disk.internal.col_metadata_df.cols # disk.external.col_metadata_df.cols

\* after is before with the one column field set to v in every row and
\* nothing else changed
StampedOnly(before, after, field, v) ==
  /\ after.cols = before.cols \cup {field}
  /\ DOMAIN after.cell = DOMAIN before.cell
  /\ \A i \in DOMAIN after.cell :
       /\ DOMAIN after.cell[i] = after.cols
       /\ after.cell[i][field] = v
       /\ \A c \in before.cols \ {field} : after.cell[i][c] = before.cell[i][c]

\* C5: each metric-stamping step sets the one metric column to the chosen
\* metric name in every row of its table, and changes no other column and
\* no row label.
C5_StampingFrame ==
  /\ Bound("row_metadata_for_sim_df") =>
       /\ StampedOnly(disk.internal.col_metadata_df, Eval("row_metadata_for_sim_df"),
                      "similarity_metric", args.similarity_metric)
       /\ StampedOnly(disk.external.col_metadata_df, Eval("col_metadata_for_sim_df"),
                      "similarity_metric", args.similarity_metric)
  /\ pc \in {"write_conn", "done"} =>
       LET c == multi_index_df_to_component_dfs(
                  locals.signed_conn_mi_df, "target_field", "query_field")
       IN /\ StampedOnly(c[2], locals.signed_row_metadata_df,
                         "connectivity_metric", args.connectivity_metric)
          /\ StampedOnly(c[3], locals.signed_col_metadata_df,
                         "connectivity_metric", args.connectivity_metric)

C5_Witness ==
  /\ pc = "done"
  /\ "similarity_metric" \in disk.internal.col_metadata_df.cols
  /\ "similarity_metric" \notin disk.external.col_metadata_df.cols

FeatureAxesDiffer == disk.internal.data_df.rid # disk.external.data_df.rid
FieldAbsent ==
  \/ \E j \in DOMAIN args.fields_to_aggregate_in_test_gct_queries :
       args.fields_to_aggregate_in_test_gct_queries[j] \notin
         disk.external.col_metadata_df.cols \cup {"similarity_metric"}
  \/ \E j \in DOMAIN args.fields_to_aggregate_in_test_gct_targets :
       args.fields_to_aggregate_in_test_gct_targets[j] \notin
         disk.internal.col_metadata_df.cols \cup {"similarity_metric"}
  \/ \E j \in DOMAIN args.fields_to_aggregate_in_bg_gct :
       args.fields_to_aggregate_in_bg_gct[j] \notin
         disk.bg.row_metadata_df.cols \cap disk.bg.col_metadata_df.cols

\* C6: with differing feature axes, or a listed field absent from its
\* metadata, the run stops where the mismatch is met: no later statement
\* executes, connectivity is not computed and no connectivity output is
\* written.
C6_SchemaMismatchAborts ==
  /\ FeatureAxesDiffer =>
       /\ pc \in {"parse_args", "rejected", "main", "compute_similarity", "failed"}
       /\ Len(calls) <= 2
       /\ ~Written("out_steep")
  /\ (FeatureAxesDiffer \/ FieldAbsent) =>
       /\ pc \in {"parse_args", "rejected", "main", "compute_similarity",
                  "stamp_similarity", "assemble_sim", "write_sim", "prepare", "failed"}
       /\ Len(calls) <= 6
       /\ CallsTo("sip.compute_connectivities") = {}
       /\ ~Bound("conn_mi_df") /\ ~Bound("signed_conn_mi_df")
       /\ ~Written("out_sip")
  /\ error = "SchemaMismatch" => pc = "failed" /\ (FeatureAxesDiffer \/ FieldAbsent)

C6_Witness ==
  /\ pc = "failed" /\ error = "SchemaMismatch"
  /\ ~FeatureAxesDiffer /\ FieldAbsent
  /\ Written("out_steep")
\* C7 as stated: the symmetry check receives the relabeled matrices, and
\* each symmetry flag says whether the row cohort keys and the column
\* cohort keys of the relabeled matrix are the same set.
C7_SymmetryOfRelabeled ==
  Bound("is_test_df_sym") =>
    /\ \A k \in CallsTo("sip.check_symmetry") : calls[k].args = <<"test_df", "bg_df">>
    /\ locals.is_test_df_sym =
         (KeySet(locals.test_df.index) = KeySet(locals.test_df.columns))
    /\ locals.is_bg_df_sym =
         (KeySet(locals.bg_df.index) = KeySet(locals.bg_df.columns))

\* C7 amended: the symmetry check receives the multi-index views of the
\* similarity gct and of the background gct, which the cohort-key step
\* left as they were (it returned new matrices), not that step's outputs:
\* the flags describe the matrices before relabeling.
C7_SymmetryOfUnrelabeled ==
  Bound("is_test_df_sym") =>
    /\ \A k \in CallsTo("sip.check_symmetry") :
         /\ calls[k].args = <<"sim_gct.multi_index_df", "bg_gct.multi_index_df">>
         /\ \A j \in DOMAIN calls[k].args :
              /\ Eval(calls[k].args[j]) \notin {locals.test_df, locals.bg_df}
              /\ \A r \in Range(Eval(calls[k].args[j]).index) \cup
                          Range(Eval(calls[k].args[j]).columns) :
                   DOMAIN r = {"id", "meta"}
    /\ CallsTo("sip.check_symmetry") # {}

C7_Witness ==
  /\ Bound("is_test_df_sym")
  /\ ~locals.is_test_df_sym
  /\ KeySet(locals.test_df.index) = KeySet(locals.test_df.columns)

\* the calls of a complete run, in order
StageOrder ==
  <<"utils.read_gct_and_config_file", "steep.compute_similarity_bw_two_dfs",
    "DataFrame.__setitem__", "GCToo.GCToo", "wg.write",
    "sip.prepare_multi_index_dfs", "sip.check_symmetry",
    "sip.compute_connectivities", "GCToo.multi_index_df_to_component_dfs",
    "sip.add_connectivity_metric_to_metadata", "wg.write">>

\* C8: the stages run once each in the order similarity, stamping and
\* writing of the similarity output, relabeling, symmetry check,
\* connectivity, stamping, writing of the connectivity output; so the
\* connectivity output is written only after the similarity output, and a
\* run that fails at or after the relabeling has written the similarity
\* output and not the connectivity output.
C8_StagesInOrder ==
  /\ Len(calls) <= Len(StageOrder)
  /\ \A k \in DOMAIN calls : calls[k].fn = StageOrder[k]
  /\ Written("out_steep") <=> Len(calls) >= 5
  /\ Written("out_sip") <=> Len(calls) = Len(StageOrder)
  /\ pc = "done" <=> Len(calls) = Len(StageOrder)
  /\ Written("out_sip") => Written("out_steep")
  /\ (pc = "failed" /\ Len(calls) >= 6) => Written("out_steep") /\ ~Written("out_sip")

C8_Witness ==
  /\ pc = "failed" /\ error = "UnknownMetric"
  /\ CallsTo("sip.compute_connectivities") # {}
  /\ Written("out_steep")

KeyedIds(axis) == {<<axis[k].id, axis[k].level, axis[k].key>> : k \in DOMAIN axis}
ExpectedKeys(ids, t, fields, level) ==
  {<<ids[k], level, Key(t.cell[ids[k]], fields, ":")>> : k \in DOMAIN ids}

\* C9 as stated: the query list keys the rows of the test matrix and the
\* target list its columns; the background list keys both axes of the
\* background matrix.
C9_QueryRowsTargetColumns ==
  Bound("test_df") =>
    /\ \A k \in DOMAIN locals.test_df.index :
         locals.test_df.index[k].key =
           Key(locals.test_df.index[k].meta,
               args.fields_to_aggregate_in_test_gct_queries, ":")
    /\ \A k \in DOMAIN locals.test_df.columns :
         locals.test_df.columns[k].key =
           Key(locals.test_df.columns[k].meta,
               args.fields_to_aggregate_in_test_gct_targets, ":")

\* C9 amended: the query list keys the columns of the test matrix (the
\* external samples) and the target list its rows (the internal samples);
\* the background list keys both axes of the background matrix; each
\* axis's keys depend on its own list alone.
C9_QueryColumnsTargetRows ==
  Bound("test_df") =>
    /\ KeyedIds(locals.test_df.columns) =
         ExpectedKeys(external_gct.data_df.columns, external_gct.col_metadata_df,
                      args.fields_to_aggregate_in_test_gct_queries, "query_field")
    /\ KeyedIds(locals.test_df.index) =
         ExpectedKeys(internal_gct.data_df.columns, internal_gct.col_metadata_df,
                      args.fields_to_aggregate_in_test_gct_targets, "target_field")
    /\ KeyedIds(locals.bg_df.index) =
         ExpectedKeys(bg_gct.data_df.index, bg_gct.row_metadata_df,
                      args.fields_to_aggregate_in_bg_gct, "target_field")
    /\ KeyedIds(locals.bg_df.columns) =
         ExpectedKeys(bg_gct.data_df.columns, bg_gct.col_metadata_df,
                      args.fields_to_aggregate_in_bg_gct, "target_field")

C9_Witness ==
  /\ Bound("test_df")
  /\ args.fields_to_aggregate_in_test_gct_queries = <<"pert_id", "cell_id">>
  /\ args.fields_to_aggregate_in_test_gct_targets = <<"pert_id">>
  /\ args.fields_to_aggregate_in_bg_gct = <<"pert_id", "cell_id">>

\* C10 as stated: the parsed inputs' sample metadata stay as they were
\* read; stamping the similarity metric does not touch them.
C10_InputsUntouched ==
  internal_gct # NoFile =>
    /\ internal_gct.col_metadata_df = disk.internal.col_metadata_df
    /\ external_gct.col_metadata_df = disk.external.col_metadata_df

\* C10 amended: the metadata of the similarity structure are the parsed
\* inputs' own tables: once the metric is stamped, the internal and the
\* external profiles' sample metadata carry the similarity_metric column
\* with the chosen metric in every row, their other columns as read; until
\* then they are as read, and the background gct always is.
C10_InputsStampedInPlace ==
  /\ (internal_gct # NoFile /\ ~Bound("row_metadata_for_sim_df")) =>
       /\ internal_gct = disk.internal
       /\ external_gct = disk.external
  /\ Bound("row_metadata_for_sim_df") =>
       /\ StampedOnly(disk.internal.col_metadata_df, internal_gct.col_metadata_df,
                      "similarity_metric", args.similarity_metric)
       /\ StampedOnly(disk.external.col_metadata_df, external_gct.col_metadata_df,
                      "similarity_metric", args.similarity_metric)
       /\ internal_gct.data_df = disk.internal.data_df
       /\ external_gct.data_df = disk.external.data_df
  /\ Bound("sim_gct") =>
       /\ locals.sim_gct.row_metadata_df = internal_gct.col_metadata_df
       /\ locals.sim_gct.col_metadata_df = external_gct.col_metadata_df
  /\ bg_gct # NoFile => bg_gct = disk.bg

C10_Witness ==
  /\ pc = "done"
  /\ "similarity_metric" \notin disk.internal.col_metadata_df.cols
  /\ "similarity_metric" \in internal_gct.col_metadata_df.cols
====
